---- MODULE Spec2Model ----
(***************************************************************************)
(* jshop backend: the relational store (lots, categories, contact          *)
(* channels, site texts, site metrics), the startup seed and the admin /   *)
(* public HTTP handlers of app/main.py, as a state machine.                *)
(*                                                                         *)
(* A table is a set of rows; a row carries its primary key `id`, so two    *)
(* rows with the same natural key are representable and uniqueness is      *)
(* something the store's constraints have to establish.                    *)
(*                                                                         *)
(* Spec      handlers run one after the other (each handler is one step).  *)
(* SpecConc  handlers of several sessions interleave at statement          *)
(*           boundaries: read phase, then flush + commit.                  *)
(***************************************************************************)
EXTENDS Integers, Sequences, FiniteSets, TLC

VARIABLES
  lots,              \* table lots
  categories,        \* table categories
  contact_channels,  \* table contact_channels
  site_texts,        \* table site_texts
  site_metrics,      \* table site_metrics
  fk_enforced,       \* does the configured store enforce FOREIGN KEY clauses
  now,               \* the store's clock, as func.now() reads it
  serving,           \* lifespan startup completed, requests are served
  sess,              \* per session: the handler in flight and its unit of work
  resp               \* outcome of the handler that finished last

vars == <<lots, categories, contact_channels, site_texts, site_metrics,
          fk_enforced, now, serving, sess, resp>>

db == <<lots, categories, contact_channels, site_texts, site_metrics>>

-----------------------------------------------------------------------------
(* Bounds of the model *)

MaxId == 2          \* largest primary key the store hands out
MaxBatch == 2       \* longest bulk-create payload
NumSessions == 2    \* sessions that may be open at once (SpecConc)
MaxClock == 1       \* last reading of the store's clock (SpecList)

-----------------------------------------------------------------------------
(* Value domains *)

Slugs == {"ring-1", "ring-2"}
Codes == {"rings", "chains"}
ContactCodes == {"tg"}

Null == "<null>"    \* an explicit JSON null / Python None in a string field

Sessions == 1..NumSessions

-----------------------------------------------------------------------------
(* Generic helpers *)

Max(S) == CHOOSE x \in S : \A y \in S : y <= x

Range(s) == {s[i] : i \in 1..Len(s)}

RECURSIVE SeqSum(_)
SeqSum(s) == IF s = <<>> THEN 0 ELSE Head(s) + SeqSum(Tail(s))

\* Python dict.get / "key in data" on a dict modelled as a function
Has(data, f) == f \in DOMAIN data
Get(data, f, dflt) == IF f \in DOMAIN data THEN data[f] ELSE dflt

\* the empty dict
NoData == [f \in {} |-> 0]

\* all sequences over S of length 0..n
SeqsUpTo(S, n) == UNION {[1..k -> S] : k \in 0..n}

-----------------------------------------------------------------------------
(* The store: primary keys, constraints *)

\* INTEGER PRIMARY KEY of the default SQLite store: largest rowid + 1
NextId(table) == IF table = {} THEN 1 ELSE Max({r.id : r \in table}) + 1

\* unique=True on Lot.slug
UniqueSlug(L) == \A r1, r2 \in L : r1.slug = r2.slug => r1 = r2

\* unique=True on Category.code and ContactChannel.code
UniqueCode(T) == \A r1, r2 \in T : r1.code = r2.code => r1 = r2

\* Mapped[str] without Optional: NOT NULL columns
NotNullLot(L) == \A r \in L :
  /\ r.slug # Null /\ r.name # Null
  /\ r.description # Null /\ r.glitch_background # Null

\* ForeignKey("categories.id", ondelete="RESTRICT")
ForeignKeyOK(L, C) == \A r \in L : \E c \in C : c.id = r.category_id

\* a store whose tables carry no UNIQUE index
IntegrityOK_NoUnique(L, C, K) ==
  /\ NotNullLot(L)
  /\ (fk_enforced => ForeignKeyOK(L, C))

\* what the store checks when a unit of work is flushed
IntegrityOK(L, C, K) ==
  /\ UniqueSlug(L)
  /\ UniqueCode(C)
  /\ UniqueCode(K)
  /\ NotNullLot(L)
  /\ (fk_enforced => ForeignKeyOK(L, C))

IdsInBound(L, C, K) ==
  \A r \in L \cup C \cup K : r.id <= MaxId

\* db.add of a list of new objects, flushed in order: each gets the next id
RECURSIVE InsertAll(_, _)
InsertAll(table, rows) ==
  IF rows = <<>> THEN table
  ELSE InsertAll(table \cup {[Head(rows) EXCEPT !.id = NextId(table)]}, Tail(rows))

\* INSERT INTO lots: server_default=func.now() stamps created_at and updated_at
RECURSIVE InsertLots(_, _)
InsertLots(table, rows) ==
  IF rows = <<>> THEN table
  ELSE InsertLots(table \cup {[Head(rows) EXCEPT !.id = NextId(table),
                                                  !.created_at = now,
                                                  !.updated_at = now]},
                  Tail(rows))

-----------------------------------------------------------------------------
(* Rows and payloads *)

\* models.Lot; created_at and updated_at are stamped by the store
LotRow(id, slug, name, category_id, price, description, specs, images, featured, sold, glitch_background, sort_order, created_at, updated_at) ==
  [id |-> id, slug |-> slug, name |-> name, category_id |-> category_id,
   price |-> price, description |-> description, specs |-> specs,
   images |-> images, featured |-> featured, sold |-> sold,
   glitch_background |-> glitch_background, sort_order |-> sort_order,
   created_at |-> created_at, updated_at |-> updated_at]

CategoryRow(id, code, label, sort_order) ==
  [id |-> id, code |-> code, label |-> label, sort_order |-> sort_order]

ContactRow(id, code, label, hint, url_template, subject_template, body_template, is_external, icon_svg, sort_order) ==
  [id |-> id, code |-> code, label |-> label, hint |-> hint,
   url_template |-> url_template, subject_template |-> subject_template,
   body_template |-> body_template, is_external |-> is_external,
   icon_svg |-> icon_svg, sort_order |-> sort_order]

SiteTextRow(id, key, value, description) ==
  [id |-> id, key |-> key, value |-> value, description |-> description]

SiteMetricRow(id, key, value) == [id |-> id, key |-> key, value |-> value]

-----------------------------------------------------------------------------
(* Responses *)

NoBody == [items |-> <<>>, errors |-> <<>>, total |-> 0,
           page |-> 0, page_size |-> 0, pages |-> 0]

\* the outcome of a handler: HTTP status and the parts of the body that are read
Reply(op, status, items, errors, total, page, page_size, pages) ==
  [op |-> op, status |-> status, items |-> items, errors |-> errors,
   total |-> total, page |-> page, page_size |-> page_size, pages |-> pages]

Status(op, status) == Reply(op, status, <<>>, <<>>, 0, 0, 0, 0)

\* category of a lot row, as the relationship Lot.category loads it
CategoryOf(C, lot) == {c \in C : c.id = lot.category_id}

lot_to_schema(C, lot) ==
  LET cat == CategoryOf(C, lot)
      category_code == IF cat # {} THEN (CHOOSE c \in cat : TRUE).code ELSE ""
      category_label == IF cat # {} THEN (CHOOSE c \in cat : TRUE).label ELSE category_code
  IN [slug |-> lot.slug, name |-> lot.name,
      category_code |-> category_code, category_label |-> category_label,
      price |-> lot.price, description |-> lot.description,
      specs |-> lot.specs, images |-> lot.images,
      featured |-> lot.featured, sold |-> lot.sold,
      glitch_background |-> lot.glitch_background,
      sort_order |-> lot.sort_order,
      created_at |-> lot.created_at, updated_at |-> lot.updated_at]

-----------------------------------------------------------------------------
(* Lookups by natural key *)

LotsBySlug(L, slug) == {r \in L : r.slug = slug}
ByCode(T, code) == {r \in T : r.code = code}

\* db.scalar(select(...).where(key == value)): the first row found
First(rows) == CHOOSE r \in rows : \A o \in rows : r.id <= o.id

-----------------------------------------------------------------------------
(* Units of work: what a handler has added to its session before commit *)

EmptyPlan ==
  [status |-> 200,
   ins_lots |-> <<>>, ins_cats |-> <<>>, ins_contacts |-> <<>>,
   upd_lots |-> {}, upd_cats |-> {}, upd_contacts |-> {},
   del_lots |-> {}, del_cats |-> {}, del_contacts |-> {},
   cascade |-> {},
   errors |-> <<>>, total |-> 0]

\* raise HTTPException(status_code=...)
Raise(status) == [EmptyPlan EXCEPT !.status = status]

IsError(p) == p.status >= 400

\* an update that also writes the column default of an omitted sort_order
Changed_ResetOmitted(row, data) ==
  [f \in {g \in (DOMAIN data) \cup {"sort_order"} : Get(data, g, 0) # row[g]} |-> Get(data, f, 0)]

\* attributes whose value differs from the loaded one: the columns of the UPDATE
Changed(row, data) ==
  [f \in {g \in DOMAIN data : data[g] # row[g]} |-> data[f]]

\* UPDATE <table> SET <changed columns> WHERE id = <id>; onupdate=func.now()
\* stamps updated_at whenever an UPDATE is emitted
ApplyLotChanges(r, ch) ==
  LotRow(r.id,
         Get(ch, "slug", r.slug),
         Get(ch, "name", r.name),
         Get(ch, "category_id", r.category_id),
         Get(ch, "price", r.price),
         Get(ch, "description", r.description),
         Get(ch, "specs", r.specs),
         Get(ch, "images", r.images),
         Get(ch, "featured", r.featured),
         Get(ch, "sold", r.sold),
         Get(ch, "glitch_background", r.glitch_background),
         Get(ch, "sort_order", r.sort_order),
         r.created_at,
         IF DOMAIN ch = {} THEN r.updated_at ELSE now)

ApplyCategoryChanges(r, ch) ==
  CategoryRow(r.id, r.code, Get(ch, "label", r.label),
              Get(ch, "sort_order", r.sort_order))

ApplyContactChanges(r, ch) ==
  ContactRow(r.id, r.code,
             Get(ch, "label", r.label),
             Get(ch, "hint", r.hint),
             Get(ch, "url_template", r.url_template),
             Get(ch, "subject_template", r.subject_template),
             Get(ch, "body_template", r.body_template),
             Get(ch, "is_external", r.is_external),
             Get(ch, "icon_svg", r.icon_svg),
             Get(ch, "sort_order", r.sort_order))

ChangesFor(upds, id) ==
  LET u == {x \in upds : x.id = id}
  IN IF u = {} THEN NoData ELSE (CHOOSE x \in u : TRUE).changes

\* the updated row is gone: the UPDATE matches no row (StaleDataError), or
\* db.refresh finds none
Stale(upds, table) ==
  \E u \in upds : ~ \E r \in table : r.id = u.id

\* the tables as the flush of plan p leaves them, before the constraints are checked
FlushLots(p, L) ==
  LET updated == {ApplyLotChanges(r, ChangesFor(p.upd_lots, r.id)) : r \in L}
      kept == {r \in updated : r.id \notin p.del_lots}
  IN InsertLots(kept, p.ins_lots)

FlushCategories(p, C) ==
  LET updated == {ApplyCategoryChanges(r, ChangesFor(p.upd_cats, r.id)) : r \in C}
      kept == {r \in updated : r.id \notin p.del_cats}
  IN InsertAll(kept, p.ins_cats)

FlushContacts(p, K) ==
  LET updated == {ApplyContactChanges(r, ChangesFor(p.upd_contacts, r.id)) : r \in K}
      kept == {r \in updated : r.id \notin p.del_contacts}
  IN InsertAll(kept, p.ins_contacts)

\* relationship(cascade="all, delete-orphan"): db.delete(category) loads the
\* category's lots and marks them deleted with it
CascadeLoad(p, L) ==
  [p EXCEPT !.del_lots = @ \cup {r.id : r \in {x \in L : x.category_id \in p.cascade}},
            !.cascade = {}]

-----------------------------------------------------------------------------
(* Handlers of app/main.py: the read phase of each, as the unit of work it    *)
(* builds from the tables it reads                                            *)

create_lot_model(payload, category_id) ==
  LotRow(0, payload.slug, payload.name, category_id, payload.price,
         payload.description, payload.specs, payload.images,
         payload.featured, payload.sold, payload.glitch_background,
         payload.sort_order, 0, 0)

\* admin_create_lot without its existence pre-check
create_lot_plan_NoPrecheck(L, C, payload) ==
  IF ByCode(C, payload.category_code) = {} THEN Raise(404)
  ELSE [EmptyPlan EXCEPT
          !.status = 201,
          !.ins_lots = <<create_lot_model(payload, First(ByCode(C, payload.category_code)).id)>>]

\* POST /api/v1/admin/lots
create_lot_plan(L, C, payload) ==
  IF LotsBySlug(L, payload.slug) # {} THEN Raise(409)
  ELSE IF ByCode(C, payload.category_code) = {} THEN Raise(404)
  ELSE [EmptyPlan EXCEPT
          !.status = 201,
          !.ins_lots = <<create_lot_model(payload, First(ByCode(C, payload.category_code)).id)>>]

\* the loop of admin_bulk_create_lots over items[k..]
RECURSIVE BulkLoop(_, _, _, _, _)
BulkLoop(items, existing_slugs, category_map, planned_slugs, acc) ==
  IF items = <<>> THEN acc
  ELSE
    LET item == Head(items)
        rest == Tail(items)
    IN IF item.slug \in existing_slugs
       THEN BulkLoop(rest, existing_slugs, category_map, planned_slugs,
              [acc EXCEPT !.errors = Append(@, [slug |-> item.slug, reason |-> "Slug already exists"])])
       ELSE IF item.slug \in planned_slugs
       THEN BulkLoop(rest, existing_slugs, category_map, planned_slugs,
              [acc EXCEPT !.errors = Append(@, [slug |-> item.slug, reason |-> "Duplicate slug in payload"])])
       ELSE IF ByCode(category_map, item.category_code) = {}
       THEN BulkLoop(rest, existing_slugs, category_map, planned_slugs,
              [acc EXCEPT !.errors = Append(@, [slug |-> item.slug, reason |-> "Category not found"])])
       ELSE BulkLoop(rest, existing_slugs, category_map, planned_slugs \cup {item.slug},
              [acc EXCEPT !.ins_lots =
                 Append(@, create_lot_model(item, First(ByCode(category_map, item.category_code)).id))])

\* admin_bulk_create_lots that forgets the slugs already stored
bulk_create_plan_NoExisting(L, C, items) ==
  IF items = <<>> THEN [EmptyPlan EXCEPT !.total = 0]
  ELSE BulkLoop(items, {}, C, {}, [EmptyPlan EXCEPT !.total = Len(items)])

\* POST /api/v1/admin/lots/bulk
bulk_create_plan(L, C, items) ==
  IF items = <<>> THEN [EmptyPlan EXCEPT !.total = 0]
  ELSE
    LET requested_slugs == {items[k].slug : k \in 1..Len(items)}
        existing_slugs == {r.slug : r \in {x \in L : x.slug \in requested_slugs}}
    IN BulkLoop(items, existing_slugs, C, {}, [EmptyPlan EXCEPT !.total = Len(items)])

\* a duplicate that copies the source's sold flag when no override is given
duplicate_lot_plan_CopySold(L, slug, payload) ==
  IF LotsBySlug(L, slug) = {} THEN Raise(404)
  ELSE IF LotsBySlug(L, payload.new_slug) # {} THEN Raise(409)
  ELSE
    LET source == First(LotsBySlug(L, slug))
    IN [EmptyPlan EXCEPT
          !.status = 201,
          !.ins_lots = <<LotRow(0,
             payload.new_slug,
             IF Has(payload, "new_name") /\ payload.new_name # "" THEN payload.new_name ELSE source.name,
             source.category_id,
             source.price,
             source.description,
             source.specs,
             source.images,
             IF Has(payload, "featured") THEN payload.featured ELSE source.featured,
             IF Has(payload, "sold") THEN payload.sold ELSE source.sold,
             source.glitch_background,
             IF Has(payload, "sort_order") THEN payload.sort_order ELSE source.sort_order,
             0, 0)>>]

\* POST /api/v1/admin/lots/{slug}/duplicate
duplicate_lot_plan(L, slug, payload) ==
  IF LotsBySlug(L, slug) = {} THEN Raise(404)
  ELSE IF LotsBySlug(L, payload.new_slug) # {} THEN Raise(409)
  ELSE
    LET source == First(LotsBySlug(L, slug))
    IN [EmptyPlan EXCEPT
          !.status = 201,
          !.ins_lots = <<LotRow(0,
             payload.new_slug,
             IF Has(payload, "new_name") /\ payload.new_name # "" THEN payload.new_name ELSE source.name,
             source.category_id,
             source.price,
             source.description,
             source.specs,
             source.images,
             IF Has(payload, "featured") THEN payload.featured ELSE source.featured,
             IF Has(payload, "sold") THEN payload.sold ELSE FALSE,
             source.glitch_background,
             IF Has(payload, "sort_order") THEN payload.sort_order ELSE source.sort_order,
             0, 0)>>]

\* data after data.pop("category_code") and lot.category_id = category.id
WithCategoryId(data, category_id) ==
  [f \in ((DOMAIN data) \ {"category_code"}) \cup {"category_id"} |->
     IF f = "category_id" THEN category_id ELSE data[f]]

\* PATCH /api/v1/admin/lots/{slug}; data is payload.dict(exclude_unset=True)
update_lot_plan(L, C, slug, data) ==
  IF LotsBySlug(L, slug) = {} THEN Raise(404)
  ELSE IF Has(data, "slug") /\ data["slug"] # slug /\ LotsBySlug(L, data["slug"]) # {}
  THEN Raise(409)
  ELSE IF Has(data, "category_code") /\ ByCode(C, data["category_code"]) = {}
  THEN Raise(404)
  ELSE
    LET lot == First(LotsBySlug(L, slug))
        attrs == IF Has(data, "category_code")
                 THEN WithCategoryId(data, First(ByCode(C, data["category_code"])).id)
                 ELSE data
    IN [EmptyPlan EXCEPT !.upd_lots = {[id |-> lot.id, changes |-> Changed(lot, attrs)]}]

\* DELETE /api/v1/admin/lots/{slug}
delete_lot_plan(L, slug) ==
  IF LotsBySlug(L, slug) = {} THEN Raise(404)
  ELSE [EmptyPlan EXCEPT !.status = 204, !.del_lots = {First(LotsBySlug(L, slug)).id}]

\* POST /api/v1/admin/categories
create_category_plan(C, payload) ==
  IF ByCode(C, payload.code) # {} THEN Raise(409)
  ELSE [EmptyPlan EXCEPT
          !.status = 201,
          !.ins_cats = <<CategoryRow(0, payload.code, payload.label, payload.sort_order)>>]

\* PATCH /api/v1/admin/categories/{code}
update_category_plan(C, code, data) ==
  IF ByCode(C, code) = {} THEN Raise(404)
  ELSE LET category == First(ByCode(C, code))
       IN [EmptyPlan EXCEPT
             !.upd_cats = {[id |-> category.id, changes |-> Changed(category, data)]}]

\* an in_use count that looks at no lot
InUse_Never(L, category) == 0

\* in_use = count of lots whose category_id is the category's id
InUse(L, category) == Cardinality({r \in L : r.category_id = category.id})

\* DELETE /api/v1/admin/categories/{code}, up to db.delete(category)
delete_category_plan(L, C, code) ==
  IF ByCode(C, code) = {} THEN Raise(404)
  ELSE LET category == First(ByCode(C, code))
       IN IF InUse(L, category) # 0 THEN Raise(409)
          ELSE [EmptyPlan EXCEPT !.status = 204,
                                 !.del_cats = {category.id},
                                 !.cascade = {category.id}]

\* POST /api/v1/admin/contacts
create_contact_plan(K, payload) ==
  IF ByCode(K, payload.code) # {} THEN Raise(409)
  ELSE [EmptyPlan EXCEPT
          !.status = 201,
          !.ins_contacts = <<ContactRow(0, payload.code, payload.label, payload.hint,
                               payload.url_template, payload.subject_template,
                               payload.body_template, payload.is_external,
                               payload.icon_svg, payload.sort_order)>>]

\* PATCH /api/v1/admin/contacts/{code}
update_contact_plan(K, code, data) ==
  IF ByCode(K, code) = {} THEN Raise(404)
  ELSE LET contact == First(ByCode(K, code))
       IN [EmptyPlan EXCEPT
             !.upd_contacts = {[id |-> contact.id, changes |-> Changed(contact, data)]}]

\* DELETE /api/v1/admin/contacts/{code}
delete_contact_plan(K, code) ==
  IF ByCode(K, code) = {} THEN Raise(404)
  ELSE [EmptyPlan EXCEPT !.status = 204, !.del_contacts = {First(ByCode(K, code)).id}]

-----------------------------------------------------------------------------
(* Flush and commit of a unit of work, and the response that follows it *)

\* the lots in the body of a bulk create: the rows it created, re-read by slug
\* (the body of a single-row handler is the projection of the stored row and is
\* not kept)
ResponseItems(p, L2, C2) ==
  IF p.total = 0 THEN <<>>
  ELSE [k \in 1..Len(p.ins_lots) |->
          lot_to_schema(C2, First(LotsBySlug(L2, p.ins_lots[k].slug)))]

\* db.commit() and what the handler does after it.  A constraint the store
\* rejects raises IntegrityError, which no handler catches: the transaction is
\* rolled back when the session closes and the request ends with status 500.
Finish(op, p) ==
  LET L2 == FlushLots(p, lots)
      C2 == FlushCategories(p, categories)
      K2 == FlushContacts(p, contact_channels)
  IN IF \/ Stale(p.upd_lots, lots)
        \/ Stale(p.upd_cats, categories)
        \/ Stale(p.upd_contacts, contact_channels)
        \/ ~ IntegrityOK(L2, C2, K2)
     THEN /\ resp' = Status(op, 500)
          /\ UNCHANGED db
     ELSE /\ IdsInBound(L2, C2, K2)
          /\ lots' = L2
          /\ categories' = C2
          /\ contact_channels' = K2
          /\ UNCHANGED <<site_texts, site_metrics>>
          /\ resp' = Reply(op, p.status, ResponseItems(p, L2, C2), p.errors,
                           p.total, 0, 0, 0)

Idle == [pc |-> "idle", op |-> "", plan |-> EmptyPlan]

AllIdle == \A i \in Sessions : sess[i].pc = "idle"

\* one request served from start to end with no other request in between
Handle(op, p) ==
  /\ serving
  /\ AllIdle
  /\ UNCHANGED <<sess, fk_enforced, now, serving>>
  /\ IF IsError(p)
     THEN resp' = Status(op, p.status) /\ UNCHANGED db
     ELSE Finish(op, CascadeLoad(p, lots))

\* A request that shares the store with another one in flight.  Each request
\* has its own session (get_db): its reads see what is committed when they run,
\* and what it adds reaches the store when it commits.
\* Begin: the handler up to, not including, db.commit()
Begin(i, op, p) ==
  /\ serving
  /\ sess[i].pc = "idle"
  /\ UNCHANGED <<db, fk_enforced, now, serving>>
  /\ IF IsError(p)
     THEN resp' = Status(op, p.status) /\ UNCHANGED sess
     ELSE /\ sess' = [sess EXCEPT ![i] = [pc |-> "pending", op |-> op, plan |-> p]]
          /\ UNCHANGED resp

\* Commit: db.commit() of a request in flight, and its response
Commit(i) ==
  /\ serving
  /\ sess[i].pc = "pending"
  /\ Finish(sess[i].op, CascadeLoad(sess[i].plan, lots))
  /\ sess' = [sess EXCEPT ![i] = Idle]
  /\ UNCHANGED <<fk_enforced, now, serving>>

-----------------------------------------------------------------------------
(* Startup seed (app/seed.py) *)

\* the first entries of DEFAULT_SITE_TEXTS
DEFAULT_SITE_TEXTS ==
  << [key |-> "site.window_title", value |-> "AeroGem Atelier", description |-> "window title"],
     [key |-> "hero.action.catalog", value |-> "catalog", description |-> "catalog button"] >>

ensure_site_metrics(M) ==
  IF \E m \in M : m.key = "visits" THEN M
  ELSE InsertAll(M, <<SiteMetricRow(0, "visits", 0)>>)

\* ensure_site_texts writing the default value and description over stored rows
ensure_site_texts_Overwrite(T) ==
  LET default(key) == CHOOSE k \in 1..Len(DEFAULT_SITE_TEXTS) : DEFAULT_SITE_TEXTS[k].key = key
      defaults == {DEFAULT_SITE_TEXTS[k].key : k \in 1..Len(DEFAULT_SITE_TEXTS)}
      reset == {IF t.key \in defaults
                THEN SiteTextRow(t.id, t.key, DEFAULT_SITE_TEXTS[default(t.key)].value,
                                 DEFAULT_SITE_TEXTS[default(t.key)].description)
                ELSE t : t \in T}
      missing == SelectSeq(DEFAULT_SITE_TEXTS, LAMBDA item : item.key \notin {t.key : t \in T})
  IN InsertAll(reset, [k \in 1..Len(missing) |->
                         SiteTextRow(0, missing[k].key, missing[k].value, missing[k].description)])

ensure_site_texts(T) ==
  LET existing_keys == {t.key : t \in T}
      missing == SelectSeq(DEFAULT_SITE_TEXTS, LAMBDA item : item.key \notin existing_keys)
  IN InsertAll(T, [k \in 1..Len(missing) |->
                     SiteTextRow(0, missing[k].key, missing[k].value, missing[k].description)])

\* the Category objects added for category_labels, "all" skipped, sort_index counting up
SeedCategoryRows(category_labels) ==
  LET named == SelectSeq(category_labels, LAMBDA e : e.code # "all")
  IN [k \in 1..Len(named) |-> CategoryRow(0, named[k].code, named[k].label, k - 1)]

\* the Lot objects added for the seed lots whose category_code is in `categories`
SeedLotRows(lot_data, new_categories) ==
  LET resolved == SelectSeq(lot_data, LAMBDA d : ByCode(new_categories, d.category_code) # {})
  IN [k \in 1..Len(resolved) |->
        create_lot_model(resolved[k], First(ByCode(new_categories, resolved[k].category_code)).id)]

\* seed_if_empty: the tables it would commit and whether the store accepts them
seed_if_empty(seed_data) ==
  LET M2 == ensure_site_metrics(site_metrics)
      T2 == ensure_site_texts(site_texts)
      has_lots == lots # {}
      C2 == InsertAll(categories, SeedCategoryRows(seed_data.category_labels))
      K2 == InsertAll(contact_channels, seed_data.contacts)
      flushed == IntegrityOK(lots, C2, K2)
      L2 == InsertLots(lots, SeedLotRows(seed_data.lots, C2 \ categories))
  IN IF has_lots
     THEN [ok |-> TRUE, L |-> lots, C |-> categories, K |-> contact_channels,
           T |-> T2, M |-> M2]
     ELSE [ok |-> flushed /\ IntegrityOK(L2, C2, K2),
           L |-> L2, C |-> C2, K |-> K2, T |-> T2, M |-> M2]

\* lifespan: the process starts (create_all, then the seed in one session);
\* an exception in the seed aborts the startup and nothing of the run is stored
lifespan(seed_data) ==
  LET r == seed_if_empty(seed_data)
  IN /\ sess' = [i \in Sessions |-> Idle]
     /\ UNCHANGED <<fk_enforced, now>>
     /\ IF r.ok
        THEN /\ IdsInBound(r.L, r.C, r.K)
             /\ lots' = r.L
             /\ categories' = r.C
             /\ contact_channels' = r.K
             /\ site_texts' = r.T
             /\ site_metrics' = r.M
             /\ serving' = TRUE
             /\ resp' = Status("lifespan", 200)
        ELSE /\ UNCHANGED db
             /\ serving' = FALSE
             /\ resp' = Status("lifespan", 500)

-----------------------------------------------------------------------------
(* The seed run statement by statement, in the startup session of a worker    *)
(* that starts while the store is shared with a worker already serving        *)

\* what other sessions see of rows a transaction has flushed and not yet
\* committed: nothing (sessionmaker(autocommit=False))
Isolated_Autocommit(committed, flushed) == flushed

Isolated(committed, flushed) == committed

\* the session that runs the seed
Seeder == 1

RunFailed ==
  /\ sess' = [sess EXCEPT ![Seeder] = Idle]
  /\ resp' = Status("lifespan", 500)
  /\ UNCHANGED <<db, serving>>

\* seed_if_empty up to the contacts loop: the site metric and the missing site
\* texts are added, the lot table is probed; with a lot stored the run commits
\* here, otherwise categories and contacts are added to the session
seed_begin(seed_data) ==
  LET M2 == ensure_site_metrics(site_metrics)
      T2 == ensure_site_texts(site_texts)
      has_lots == lots # {}
  IN /\ sess[Seeder].pc = "idle"
     /\ UNCHANGED <<fk_enforced, now>>
     /\ IF has_lots
        THEN /\ site_metrics' = M2
             /\ site_texts' = T2
             /\ UNCHANGED <<lots, categories, contact_channels, sess>>
             /\ serving' = TRUE
             /\ resp' = Status("lifespan", 200)
        ELSE /\ sess' = [sess EXCEPT ![Seeder] =
                           [pc |-> "added", op |-> "lifespan", plan |-> EmptyPlan,
                            seed |-> [data |-> seed_data, T |-> T2, M |-> M2,
                                      C |-> SeedCategoryRows(seed_data.category_labels),
                                      K |-> seed_data.contacts]]]
             /\ UNCHANGED <<db, serving, resp>>

\* db.flush(): the INSERTs of the site rows, categories and contacts run inside
\* the session's transaction and the new rows get their ids
seed_flush ==
  LET run == sess[Seeder].seed
      C2 == InsertAll(categories, run.C)
      K2 == InsertAll(contact_channels, run.K)
  IN /\ sess[Seeder].pc = "added"
     /\ UNCHANGED <<fk_enforced, now>>
     /\ IF IntegrityOK(lots, C2, K2)
        THEN /\ IdsInBound(lots, C2, K2)
             /\ sess' = [sess EXCEPT ![Seeder].pc = "flushed",
                                     ![Seeder].seed.C = C2 \ categories,
                                     ![Seeder].seed.K = K2 \ contact_channels]
             /\ categories' = Isolated(categories, C2)
             /\ contact_channels' = Isolated(contact_channels, K2)
             /\ site_texts' = Isolated(site_texts, run.T)
             /\ site_metrics' = Isolated(site_metrics, run.M)
             /\ UNCHANGED <<lots, serving, resp>>
        ELSE RunFailed

\* the lots loop and db.commit(): everything the run added is stored at once
seed_commit ==
  LET run == sess[Seeder].seed
      C2 == categories \cup run.C
      K2 == contact_channels \cup run.K
      L2 == InsertLots(lots, SeedLotRows(run.data.lots, run.C))
  IN /\ sess[Seeder].pc = "flushed"
     /\ UNCHANGED <<fk_enforced, now>>
     /\ IF IntegrityOK(L2, C2, K2)
        THEN /\ IdsInBound(L2, C2, K2)
             /\ lots' = L2
             /\ categories' = C2
             /\ contact_channels' = K2
             /\ site_texts' = run.T
             /\ site_metrics' = run.M
             /\ sess' = [sess EXCEPT ![Seeder] = Idle]
             /\ serving' = TRUE
             /\ resp' = Status("lifespan", 200)
        ELSE RunFailed

\* a request of the worker already serving commits; the store lets one
\* transaction write at a time, so it waits while the seed run holds flushed rows
peer_commit(i) ==
  /\ i # Seeder
  /\ sess[Seeder].pc # "flushed"
  /\ Commit(i)

-----------------------------------------------------------------------------
(* Text: a string column as the sequence of its characters *)

\* the characters that occur, in code-point order (the BINARY collation)
Alphabet ==
  <<" ", "B", "C", "I", "N", "R", "S", "a", "c", "d", "e", "g", "h", "i", "l", "n", "o",
    "p", "r", "t", "y">>

Ord(ch) == CHOOSE k \in 1..Len(Alphabet) : Alphabet[k] = ch

\* lower() of one character
Lower(ch) ==
  CASE ch = "B" -> "b" [] ch = "C" -> "c" [] ch = "I" -> "i" [] ch = "N" -> "n"
    [] ch = "R" -> "r" [] ch = "S" -> "s" [] OTHER -> ch

\* the characters of the strings stored in name and description
Chars(str) ==
  CASE str = "" -> <<>>
    [] str = "Ring" -> <<"R", "i", "n", "g">>
    [] str = "Band" -> <<"B", "a", "n", "d">>
    [] str = "Signet" -> <<"S", "i", "g", "n", "e", "t">>
    [] str = "Copy" -> <<"C", "o", "p", "y">>
    [] str = "Chain" -> <<"C", "h", "a", "i", "n">>
    [] str = "gold ring" -> <<"g", "o", "l", "d", " ", "r", "i", "n", "g">>

\* str.strip()
RECURSIVE StripLeft(_)
StripLeft(t) == IF t # <<>> /\ Head(t) = " " THEN StripLeft(Tail(t)) ELSE t

RECURSIVE StripRight(_)
StripRight(t) ==
  IF t # <<>> /\ t[Len(t)] = " " THEN StripRight(SubSeq(t, 1, Len(t) - 1)) ELSE t

Strip(t) == StripRight(StripLeft(t))

\* text ILIKE pattern: % matches any run of characters, _ any one character,
\* every other character itself without regard to case
RECURSIVE ILike(_, _)
ILike(text, pattern) ==
  IF pattern = <<>> THEN text = <<>>
  ELSE IF Head(pattern) = "%"
       THEN ILike(text, Tail(pattern)) \/ (text # <<>> /\ ILike(Tail(text), pattern))
  ELSE IF Head(pattern) = "_"
       THEN text # <<>> /\ ILike(Tail(text), Tail(pattern))
  ELSE /\ text # <<>>
       /\ Lower(Head(text)) = Lower(Head(pattern))
       /\ ILike(Tail(text), Tail(pattern))

\* a < b in code-point order
RECURSIVE TextLess(_, _)
TextLess(a, b) ==
  IF b = <<>> THEN FALSE
  ELSE IF a = <<>> THEN TRUE
  ELSE IF Head(a) = Head(b) THEN TextLess(Tail(a), Tail(b))
  ELSE Ord(Head(a)) < Ord(Head(b))

-----------------------------------------------------------------------------
(* GET /api/v1/lots *)

\* normalize_page without the upper limit of page_size
normalize_page_NoCap(page, page_size) ==
  <<IF page > 1 THEN page ELSE 1, IF page_size > 1 THEN page_size ELSE 1>>

normalize_page(page, page_size) ==
  LET p == IF page > 1 THEN page ELSE 1
      capped == IF page_size < 100 THEN page_size ELSE 100
      ps == IF capped > 1 THEN capped ELSE 1
  IN <<p, ps>>

\* select(Lot).join(Category): the lots that have a category row
Joined(L, C) == {r \in L : CategoryOf(C, r) # {}}

\* the WHERE clause apply_lot_filters builds; q = <<>> stands for None and ""
apply_lot_filters(rows, C, q, category, only_available) ==
  {r \in rows :
     /\ (q # <<>>) =>
          LET search == <<"%">> \o Strip(q) \o <<"%">>
          IN ILike(Chars(r.name), search) \/ ILike(Chars(r.description), search)
     /\ (category # Null /\ category # "" /\ category # "all") =>
          \E c \in CategoryOf(C, r) : c.code = category
     /\ only_available => ~ r.sold}

\* does ORDER BY of the sort mode allow a before b (a's keys are not greater)
OrderAllows(a, b, sort) ==
  LET nameLe == ~ TextLess(Chars(b.name), Chars(a.name))
  IN CASE sort = "price-asc" ->
            a.price < b.price \/ (a.price = b.price /\ nameLe)
       [] sort = "price-desc" ->
            a.price > b.price \/ (a.price = b.price /\ nameLe)
       [] sort = "name-asc" -> nameLe
       [] sort = "newest" ->
            a.created_at > b.created_at \/ (a.created_at = b.created_at /\ nameLe)
       [] OTHER ->
            \/ (a.featured /\ ~ b.featured)
            \/ /\ a.featured = b.featured
               /\ \/ a.price < b.price
                  \/ (a.price = b.price /\ a.sort_order <= b.sort_order)

\* the orders in which the store may return rows under apply_lot_sort: every
\* arrangement that respects the ORDER BY keys (rows equal in all keys come in
\* any order)
apply_lot_sort(rows, sort) ==
  {s \in [1..Cardinality(rows) -> rows] :
     /\ \A i, j \in DOMAIN s : i # j => s[i] # s[j]
     /\ \A i, j \in DOMAIN s : i < j => OrderAllows(s[i], s[j], sort)}

\* .offset(offset).limit(limit)
OffsetLimit(s, offset, limit) ==
  SubSeq(s, offset + 1, IF offset + limit < Len(s) THEN offset + limit ELSE Len(s))

\* ceil(total / page_size)
Ceil(a, b) == (a + b - 1) \div b

\* the page get_lots returns when the store lists the matching rows as `ordered`
LotsPage(C, total, ordered, page, page_size) ==
  LET shown == OffsetLimit(ordered, (page - 1) * page_size, page_size)
      pages == IF Ceil(total, page_size) > 1 THEN Ceil(total, page_size) ELSE 1
  IN Reply("get_lots", 200, [k \in 1..Len(shown) |-> lot_to_schema(C, shown[k])],
           <<>>, total, page, page_size, pages)

get_lots(q, category, sort, only_available, page, page_size) ==
  LET np == normalize_page(page, page_size)
      matching == apply_lot_filters(Joined(lots, categories), categories,
                                    q, category, only_available)
      total == Cardinality(matching)
  IN /\ serving
     /\ \E ordered \in apply_lot_sort(matching, sort) :
          resp' = LotsPage(categories, total, ordered, np[1], np[2])
     /\ UNCHANGED <<db, fk_enforced, now, serving, sess>>

-----------------------------------------------------------------------------
(* Request payloads and seed datasets the model draws from *)

\* a LotCreate payload: the fields besides slug and category_code go with the slug
LotPayload(slug, category_code) ==
  IF slug = "ring-1"
  THEN [slug |-> slug, name |-> "Ring", category_code |-> category_code,
        price |-> 100, description |-> "gold ring", specs |-> <<"au">>,
        images |-> <<"r1.png">>, featured |-> TRUE, sold |-> TRUE,
        glitch_background |-> "aurora", sort_order |-> 1]
  ELSE [slug |-> slug, name |-> "Band", category_code |-> category_code,
        price |-> 300, description |-> "", specs |-> <<>>,
        images |-> <<>>, featured |-> FALSE, sold |-> FALSE,
        glitch_background |-> "", sort_order |-> 0]

LotPayloads == {LotPayload(s, c) : s \in Slugs, c \in Codes}

\* the items bulk payloads are made of
BulkItems ==
  {LotPayload("ring-1", "rings"), LotPayload("ring-2", "rings"), LotPayload("ring-2", "chains")}

\* LotUpdate payloads as payload.dict(exclude_unset=True) leaves them
LotUpdates ==
  {[slug |-> s] : s \in Slugs}
    \cup {[category_code |-> c] : c \in Codes}
    \cup {[name |-> Null]}

\* LotDuplicateCreate payloads: new_slug and the overrides that were supplied
LotDuplicates ==
  {[new_slug |-> s] : s \in Slugs}

CategoryLabel(code) == IF code = "rings" THEN "Rings" ELSE "Chains"

CategoryPayloads == {[code |-> c, label |-> CategoryLabel(c), sort_order |-> 0] : c \in Codes}

\* a PATCH with an empty body
CategoryUpdates == {NoData}

ContactPayloads ==
  {[code |-> c, label |-> "Telegram", hint |-> "fast", url_template |-> "https://t.me/x",
    subject_template |-> "", body_template |-> "hello", is_external |-> TRUE,
    icon_svg |-> "<svg/>", sort_order |-> 1] : c \in ContactCodes}

ContactUpdates == {NoData}

\* seed_data.json as load_seed_data returns it
SeedFull ==
  [category_labels |-> << [code |-> "all", label |-> "All"],
                          [code |-> "rings", label |-> "Rings"] >>,
   contacts |-> << ContactRow(0, "tg", "Telegram", "fast", "https://t.me/x", "", "hello", TRUE, "<svg/>", 1) >>,
   lots |-> << LotPayload("ring-1", "rings"), LotPayload("ring-2", "gems") >>]

\* a dataset whose lots all name a category it does not define
SeedNoLots ==
  [category_labels |-> << [code |-> "all", label |-> "All"],
                          [code |-> "chains", label |-> "Chains"] >>,
   contacts |-> <<>>,
   lots |-> << LotPayload("ring-2", "gems") >>]

SeedDatasets == {SeedFull, SeedNoLots}

-----------------------------------------------------------------------------
(* Actions: one per handler *)

admin_create_lot(payload) ==
  Handle("admin_create_lot", create_lot_plan(lots, categories, payload))

admin_bulk_create_lots(items) ==
  Handle("admin_bulk_create_lots", bulk_create_plan(lots, categories, items))

admin_duplicate_lot(slug, payload) ==
  Handle("admin_duplicate_lot", duplicate_lot_plan(lots, slug, payload))

admin_update_lot(slug, data) ==
  Handle("admin_update_lot", update_lot_plan(lots, categories, slug, data))

admin_delete_lot(slug) ==
  Handle("admin_delete_lot", delete_lot_plan(lots, slug))

admin_create_category(payload) ==
  Handle("admin_create_category", create_category_plan(categories, payload))

admin_update_category(code, data) ==
  Handle("admin_update_category", update_category_plan(categories, code, data))

admin_delete_category(code) ==
  Handle("admin_delete_category", delete_category_plan(lots, categories, code))

admin_create_contact(payload) ==
  Handle("admin_create_contact", create_contact_plan(contact_channels, payload))

admin_update_contact(code, data) ==
  Handle("admin_update_contact", update_contact_plan(contact_channels, code, data))

admin_delete_contact(code) ==
  Handle("admin_delete_contact", delete_contact_plan(contact_channels, code))

-----------------------------------------------------------------------------
(* Specification: requests served one at a time *)

\* the tables after Base.metadata.create_all on a new database, before lifespan
Init ==
  /\ lots = {}
  /\ categories = {}
  /\ contact_channels = {}
  /\ site_texts = {}
  /\ site_metrics = {}
  /\ fk_enforced = FALSE
  /\ now = 0
  /\ serving = FALSE
  /\ sess = [i \in Sessions |-> Idle]
  /\ resp = Status("", 0)

Next ==
  \/ \E seed_data \in SeedDatasets : lifespan(seed_data)
  \/ \E payload \in LotPayloads : admin_create_lot(payload)
  \/ \E items \in SeqsUpTo(BulkItems, MaxBatch) : admin_bulk_create_lots(items)
  \/ \E slug \in Slugs, payload \in LotDuplicates : admin_duplicate_lot(slug, payload)
  \/ \E slug \in Slugs, data \in LotUpdates : admin_update_lot(slug, data)
  \/ \E slug \in Slugs : admin_delete_lot(slug)
  \/ \E payload \in CategoryPayloads : admin_create_category(payload)
  \/ \E code \in Codes, data \in CategoryUpdates : admin_update_category(code, data)
  \/ \E code \in Codes : admin_delete_category(code)
  \/ \E payload \in ContactPayloads : admin_create_contact(payload)
  \/ \E code \in ContactCodes, data \in ContactUpdates : admin_update_contact(code, data)
  \/ \E code \in ContactCodes : admin_delete_contact(code)

Spec == Init /\ [][Next]_vars

-----------------------------------------------------------------------------
(* SpecFrame: the same handlers, driven with updates and duplicates that set   *)
(* every field, on the tables a seed run leaves                                *)

LotUpdatesRich ==
  {[slug |-> s] : s \in Slugs}
    \cup {NoData,
          [price |-> 500],
          [category_code |-> "rings"],
          [name |-> "Signet", description |-> "", specs |-> <<>>, images |-> <<"x.png">>,
           featured |-> FALSE, sold |-> FALSE, glitch_background |-> "", sort_order |-> 0]}

LotDuplicatesRich ==
  {[new_slug |-> s] : s \in Slugs}
    \cup {[new_slug |-> "ring-2", new_name |-> "Copy"],
          [new_slug |-> "ring-2", featured |-> FALSE, sold |-> TRUE, sort_order |-> 0]}

CategoryUpdatesRich ==
  {<<"rings", [label |-> "Sale"]>>, <<"rings", [sort_order |-> 7]>>, <<"chains", NoData>>}

ContactUpdatesRich == {NoData, [label |-> "Chat", is_external |-> FALSE]}

\* a dataset with two categories, one contact and one lot
SeedShop ==
  [category_labels |-> << [code |-> "all", label |-> "All"],
                          [code |-> "rings", label |-> "Rings"],
                          [code |-> "chains", label |-> "Chains"] >>,
   contacts |-> << ContactRow(0, "tg", "Telegram", "fast", "https://t.me/x", "", "hello", TRUE, "<svg/>", 1) >>,
   lots |-> << LotPayload("ring-1", "chains") >>]

NextFrame ==
  \/ lifespan(SeedShop)
  \/ \E slug \in Slugs, data \in LotUpdatesRich : admin_update_lot(slug, data)
  \/ \E slug \in Slugs, payload \in LotDuplicatesRich : admin_duplicate_lot(slug, payload)
  \/ \E u \in CategoryUpdatesRich : admin_update_category(u[1], u[2])
  \/ \E code \in ContactCodes, data \in ContactUpdatesRich : admin_update_contact(code, data)

SpecFrame == Init /\ [][NextFrame]_vars

-----------------------------------------------------------------------------
(* SpecConc: requests of several sessions in flight at once *)

\* GET /api/v1/lots query strings
ListQueries ==
  [q : {<<>>}, category : {"all", "rings"}, sort : {"price-asc"},
   only_available : {FALSE}, page : {1}, page_size : {2}]

\* the requests in flight aim at one category, "rings"
RacingLots == {LotPayload(slug, "rings") : slug \in Slugs}

RacingBatches == {<<LotPayload("ring-2", "rings")>>}

RacingDuplicates == {[new_slug |-> "ring-2"]}

LotReassignments == {[category_code |-> "rings"]}

RacingCategories == {c \in CategoryPayloads : c.code = "rings"}

admin_create_lot_begin(i, payload) ==
  Begin(i, "admin_create_lot", create_lot_plan(lots, categories, payload))

admin_bulk_create_lots_begin(i, items) ==
  Begin(i, "admin_bulk_create_lots", bulk_create_plan(lots, categories, items))

admin_duplicate_lot_begin(i, slug, payload) ==
  Begin(i, "admin_duplicate_lot", duplicate_lot_plan(lots, slug, payload))

admin_update_lot_begin(i, slug, data) ==
  Begin(i, "admin_update_lot", update_lot_plan(lots, categories, slug, data))

admin_delete_lot_begin(i, slug) ==
  Begin(i, "admin_delete_lot", delete_lot_plan(lots, slug))

admin_create_category_begin(i, payload) ==
  Begin(i, "admin_create_category", create_category_plan(categories, payload))

admin_delete_category_begin(i, code) ==
  Begin(i, "admin_delete_category", delete_category_plan(lots, categories, code))

admin_create_contact_begin(i, payload) ==
  Begin(i, "admin_create_contact", create_contact_plan(contact_channels, payload))

admin_delete_contact_begin(i, code) ==
  Begin(i, "admin_delete_contact", delete_contact_plan(contact_channels, code))

\* the store is whichever DATABASE_URL names: one that enforces foreign keys,
\* or the default SQLite file, which does not
InitConc ==
  /\ lots = {}
  /\ categories = {}
  /\ contact_channels = {}
  /\ site_texts = {}
  /\ site_metrics = {}
  /\ fk_enforced \in BOOLEAN
  /\ now = 0
  /\ serving = FALSE
  /\ sess = [i \in Sessions |-> Idle]
  /\ resp = Status("", 0)

NextConc ==
  \/ lifespan(SeedNoLots)
  \/ \E i \in Sessions, payload \in RacingLots : admin_create_lot_begin(i, payload)
  \/ \E i \in Sessions, items \in RacingBatches : admin_bulk_create_lots_begin(i, items)
  \/ \E i \in Sessions, payload \in RacingDuplicates :
       admin_duplicate_lot_begin(i, "ring-1", payload)
  \/ \E i \in Sessions, data \in LotReassignments :
       admin_update_lot_begin(i, "ring-1", data)
  \/ \E i \in Sessions, slug \in Slugs : admin_delete_lot_begin(i, slug)
  \/ \E i \in Sessions, payload \in RacingCategories : admin_create_category_begin(i, payload)
  \/ \E i \in Sessions : admin_delete_category_begin(i, "rings")
  \/ \E i \in Sessions, payload \in ContactPayloads : admin_create_contact_begin(i, payload)
  \/ \E i \in Sessions : Commit(i)
  \/ \E a \in ListQueries :
       get_lots(a.q, a.category, a.sort, a.only_available, a.page, a.page_size)

SpecConc == InitConc /\ [][NextConc]_vars

-----------------------------------------------------------------------------
(* SpecList: the public listing over catalogues the admin handlers build *)

SortModes == {"price-asc", "price-desc", "name-asc", "newest", "featured", "popular"}

\* every sort mode, first and second page
SortQueries ==
  [q : {<<>>}, category : {"all"}, sort : SortModes,
   only_available : {FALSE}, page : {1, 2}, page_size : {1}]

\* page and page_size below and above their ranges, and a second page of two
PageQueries ==
  [q : {<<>>}, category : {"all"}, sort : {"price-asc"},
   only_available : {FALSE}, page : {-1, 0, 2}, page_size : {-5, 0, 2, 101}]

ListQueriesRich == SortQueries \cup PageQueries

\* time passes at the store: func.now() reads a later value
Tick ==
  /\ now < MaxClock
  /\ now' = now + 1
  /\ UNCHANGED <<db, fk_enforced, serving, sess, resp>>

NextList ==
  \/ lifespan(SeedShop)
  \/ \E payload \in LotPayloads : admin_create_lot(payload)
  \/ \E slug \in Slugs, payload \in LotDuplicates : admin_duplicate_lot(slug, payload)
  \/ \E slug \in Slugs : admin_delete_lot(slug)
  \/ Tick
  \/ \E a \in ListQueriesRich :
       get_lots(a.q, a.category, a.sort, a.only_available, a.page, a.page_size)

SpecList == Init /\ [][NextList]_vars

-----------------------------------------------------------------------------
(* SpecSeed: a seed run in steps, next to a request of a serving worker *)

\* site texts and visit counter as earlier runs and the site's admin left them
SiteTextStates ==
  { {},
    {SiteTextRow(1, "site.window_title", "Gem House", "window title")},
    {SiteTextRow(1, "site.window_title", "AeroGem Atelier", "window title"),
     SiteTextRow(2, "hero.action.catalog", "browse", "catalog button")} }

SiteMetricStates == { {}, {SiteMetricRow(1, "visits", 7)} }

InitSeed ==
  /\ lots = {}
  /\ categories = {}
  /\ contact_channels = {}
  /\ site_texts \in SiteTextStates
  /\ site_metrics \in SiteMetricStates
  /\ fk_enforced = FALSE
  /\ now = 0
  /\ serving = FALSE
  /\ sess = [i \in Sessions |-> Idle]
  /\ resp = Status("", 0)

Peer == 2

NextSeed ==
  \/ \E seed_data \in {SeedFull, SeedShop} : seed_begin(seed_data)
  \/ seed_flush
  \/ seed_commit
  \/ \E payload \in RacingCategories : admin_create_category_begin(Peer, payload)
  \/ \E payload \in RacingLots : admin_create_lot_begin(Peer, payload)
  \/ \E slug \in Slugs : admin_delete_lot_begin(Peer, slug)
  \/ \E code \in Codes : admin_delete_category_begin(Peer, code)
  \/ \E code \in ContactCodes : admin_delete_contact_begin(Peer, code)
  \/ peer_commit(Peer)

SpecSeed == InitSeed /\ [][NextSeed]_vars

-----------------------------------------------------------------------------
(* SpecPrice: requests as they arrive, validated by their schema before the    *)
(* handler runs, and seed datasets as shipped                                  *)

\* LotBase: price: int = Field(ge=0)
LotCreateValid(payload) == payload.price >= 0

\* LotUpdate: price: int | None = Field(default=None, ge=0)
\* (a price that is supplied as an integer; an explicit null is not among the
\* inputs below)
LotUpdateValid(data) == Has(data, "price") => data["price"] >= 0

\* a body that fails validation is answered 422 and the handler is not called
Rejected(op) ==
  /\ serving
  /\ AllIdle
  /\ resp' = Status(op, 422)
  /\ UNCHANGED <<db, sess, fk_enforced, now, serving>>

post_lot(payload) ==
  IF LotCreateValid(payload) THEN admin_create_lot(payload)
  ELSE Rejected("admin_create_lot")

post_lots_bulk(items) ==
  IF \A k \in 1..Len(items) : LotCreateValid(items[k]) THEN admin_bulk_create_lots(items)
  ELSE Rejected("admin_bulk_create_lots")

patch_lot(slug, data) ==
  IF LotUpdateValid(data) THEN admin_update_lot(slug, data)
  ELSE Rejected("admin_update_lot")

Prices == {-5, 0, 300}

PricedLots == {[LotPayload(slug, "rings") EXCEPT !.price = p] : slug \in Slugs, p \in Prices}

PriceUpdates == {[price |-> p] : p \in Prices}

\* a dataset with a lot below zero
SeedBargain ==
  [category_labels |-> << [code |-> "all", label |-> "All"],
                          [code |-> "rings", label |-> "Rings"] >>,
   contacts |-> <<>>,
   lots |-> << [LotPayload("ring-1", "rings") EXCEPT !.price = -5] >>]

NextPrice ==
  \/ \E seed_data \in {SeedShop, SeedBargain} : lifespan(seed_data)
  \/ \E payload \in PricedLots : post_lot(payload)
  \/ \E items \in SeqsUpTo({x \in PricedLots : x.slug = "ring-2"}, MaxBatch) : post_lots_bulk(items)
  \/ \E slug \in Slugs, payload \in LotDuplicates : admin_duplicate_lot(slug, payload)
  \/ \E slug \in Slugs, data \in PriceUpdates : patch_lot(slug, data)
  \/ \E slug \in Slugs : admin_delete_lot(slug)

SpecPrice == Init /\ [][NextPrice]_vars

-----------------------------------------------------------------------------
(* SpecSession: the life of the session that get_db hands to a handler         *)

\* get_db: try: yield db / finally: db.close(). Where control goes when the
\* handler leaves the yield, by returning or by raising
get_db_NoFinally(exit) == IF exit = "raised" THEN "unwound" ELSE "finally"

get_db(exit) == "finally"

\* ids the requests in flight may still take stay within MaxId
Room(table, pending, rows) ==
  NextId(table) - 1 + SeqSum(pending) + Len(rows) <= MaxId

InFlight(i, f) ==
  [j \in 1..NumSessions |->
     IF j # i /\ sess[j].pc = "yielded" THEN Len(sess[j].plan[f]) ELSE 0]

\* db = SessionLocal(); yield db: the handler receives the session and runs
\* its queries and checks
Enter(i, op, p) ==
  /\ serving
  /\ sess[i].pc = "idle"
  /\ Room(lots, InFlight(i, "ins_lots"), p.ins_lots)
  /\ Room(categories, InFlight(i, "ins_cats"), p.ins_cats)
  /\ Room(contact_channels, InFlight(i, "ins_contacts"), p.ins_contacts)
  /\ sess' = [sess EXCEPT ![i] = [pc |-> "yielded", op |-> op, plan |-> p]]
  /\ UNCHANGED <<db, resp, fk_enforced, now, serving>>

\* the handler leaves: it raises the HTTPException of a failed check, or it
\* commits and returns, or its commit raises
Leave(i) ==
  /\ serving
  /\ sess[i].pc = "yielded"
  /\ UNCHANGED <<fk_enforced, now, serving>>
  /\ IF IsError(sess[i].plan)
     THEN /\ resp' = Status(sess[i].op, sess[i].plan.status)
          /\ UNCHANGED db
          /\ sess' = [sess EXCEPT ![i].pc = get_db("raised")]
     ELSE /\ Finish(sess[i].op, CascadeLoad(sess[i].plan, lots))
          /\ sess' = [sess EXCEPT ![i].pc =
                        get_db(IF resp'.status = 500 THEN "raised" ELSE "returned")]

\* finally: db.close()
db_close(i) ==
  /\ sess[i].pc = "finally"
  /\ sess' = [sess EXCEPT ![i] = Idle]
  /\ UNCHANGED <<db, resp, fk_enforced, now, serving>>

NextSession ==
  \/ ~ serving /\ lifespan(SeedShop)
  \/ \E i \in Sessions :
       Enter(i, "admin_create_lot", create_lot_plan(lots, categories, LotPayload("ring-2", "rings")))
  \/ \E i \in Sessions :
       Enter(i, "admin_delete_lot", delete_lot_plan(lots, "ring-1"))
  \/ \E i \in Sessions : Leave(i)
  \/ \E i \in Sessions : db_close(i)

\* a handler is synchronous code that runs to its return or its raise, and the
\* framework resumes the dependency after it
SpecSession ==
  /\ Init
  /\ [][NextSession]_vars
  /\ \A i \in Sessions : WF_vars(Leave(i)) /\ WF_vars(db_close(i))

-----------------------------------------------------------------------------
(* Claims checked under Spec *)

\* C1: in every state reachable by the seed and any sequence of admin
\* operations no two lots share a slug, no two categories share a code and no
\* two contact channels share a code.
C1_NaturalKeysUnique ==
  /\ \A a, b \in lots : a.slug = b.slug => a.id = b.id
  /\ \A a, b \in categories : a.code = b.code => a.id = b.id
  /\ \A a, b \in contact_channels : a.code = b.code => a.id = b.id

\* two lots, two categories and a contact are stored and a lot was just renamed
C1_Witness ==
  /\ Cardinality(lots) = 2
  /\ Cardinality(categories) = 2
  /\ contact_channels # {}
  /\ resp.op = "admin_update_lot"
  /\ resp.status = 200

ConflictAndUnchanged == resp'.status = 409 /\ db' = db

\* C2: a create, duplicate or rename whose requested natural key is already
\* held by a stored row ends with a conflict and leaves every stored row as it
\* was.
C2_KeyHeldIsConflict ==
  [][ /\ resp'.op = "admin_create_lot" =>
           \A payload \in LotPayloads :
             (admin_create_lot(payload) /\ \E r \in lots : r.slug = payload.slug)
               => ConflictAndUnchanged
      /\ resp'.op = "admin_create_category" =>
           \A payload \in CategoryPayloads :
             (admin_create_category(payload) /\ \E c \in categories : c.code = payload.code)
               => ConflictAndUnchanged
      /\ resp'.op = "admin_create_contact" =>
           \A payload \in ContactPayloads :
             (admin_create_contact(payload) /\ \E k \in contact_channels : k.code = payload.code)
               => ConflictAndUnchanged
      /\ resp'.op = "admin_duplicate_lot" =>
           \A slug \in Slugs, payload \in LotDuplicates :
             (/\ admin_duplicate_lot(slug, payload)
              /\ \E r \in lots : r.slug = slug
              /\ \E r \in lots : r.slug = payload.new_slug)
               => ConflictAndUnchanged
      /\ resp'.op = "admin_update_lot" =>
           \A slug \in Slugs, new \in Slugs :
             (/\ admin_update_lot(slug, [slug |-> new])
              /\ new # slug
              /\ \E r \in lots : r.slug = slug
              /\ \E r \in lots : r.slug = new)
               => ConflictAndUnchanged
    ]_vars

\* a rename into a slug that another lot holds was answered with a conflict
C2_Witness ==
  /\ resp.op = "admin_update_lot"
  /\ resp.status = 409
  /\ Cardinality(lots) = 2

\* C4: deleting a category that a lot references is a conflict and changes
\* nothing; deleting a category no lot references removes that category and
\* nothing else.
C4_DeleteCategory ==
  [][ resp'.op = "admin_delete_category" => \A code \in Codes :
        (admin_delete_category(code) /\ \E c \in categories : c.code = code)
          => LET target == {c \in categories : c.code = code}
                 owned == {r \in lots : \E c \in target : r.category_id = c.id}
             IN IF owned # {}
                THEN resp'.status = 409 /\ db' = db
                ELSE /\ resp'.status = 204
                     /\ categories' = categories \ target
                     /\ lots' = lots
                     /\ contact_channels' = contact_channels
                     /\ site_texts' = site_texts
                     /\ site_metrics' = site_metrics
    ]_vars

\* the delete of a category that owns a lot was refused
C4_Witness ==
  /\ resp.op = "admin_delete_category"
  /\ resp.status = 409
  /\ \E c \in categories : \E r \in lots : r.category_id = c.id

\* C5: every seed run completes without a uniqueness failure and leaves no
\* duplicated category, lot, contact or site-text entry.
C5_SeedAlwaysCompletes ==
  /\ (resp.op = "lifespan" => resp.status = 200)
  /\ \A a, b \in lots : a.slug = b.slug => a.id = b.id
  /\ \A a, b \in categories : a.code = b.code => a.id = b.id
  /\ \A a, b \in contact_channels : a.code = b.code => a.id = b.id
  /\ \A a, b \in site_texts : a.key = b.key => a.id = b.id

\* does item k of a bulk payload qualify: slug not stored, not accepted earlier
\* in the payload, category code stored
RECURSIVE Accepted(_, _)
Accepted(items, k) ==
  /\ ~ \E r \in lots : r.slug = items[k].slug
  /\ \E c \in categories : c.code = items[k].category_code
  /\ ~ \E j \in 1..(k - 1) : items[j].slug = items[k].slug /\ Accepted(items, j)

\* the sub-sequence of s at the indices in idx, in order
RECURSIVE Pick(_, _, _)
Pick(s, idx, k) ==
  IF k > Len(s) THEN <<>>
  ELSE IF k \in idx THEN <<s[k]>> \o Pick(s, idx, k + 1)
  ELSE Pick(s, idx, k + 1)

\* C8: a bulk create makes a lot of exactly the items whose slug is not stored,
\* was not accepted earlier in the batch and whose category is stored; every
\* other item gives one {slug, reason} error; created + errors = total = the
\* batch length; the store afterwards is the previous lots plus the created.
C8_BulkCreate ==
  [][ resp'.op = "admin_bulk_create_lots" => \A items \in SeqsUpTo(BulkItems, MaxBatch) :
        admin_bulk_create_lots(items)
          => LET good == {k \in 1..Len(items) : Accepted(items, k)}
                 bad == (1..Len(items)) \ good
                 wanted == Pick(items, good, 1)
                 refused == Pick(items, bad, 1)
                 added == lots' \ lots
             IN /\ resp'.status = 200
                /\ resp'.total = Len(items)
                /\ Len(resp'.items) + Len(resp'.errors) = resp'.total
                /\ Len(resp'.items) = Len(wanted)
                /\ \A k \in 1..Len(wanted) :
                     /\ resp'.items[k].slug = wanted[k].slug
                     /\ resp'.items[k].category_code = wanted[k].category_code
                     /\ resp'.items[k].price = wanted[k].price
                /\ Len(resp'.errors) = Len(refused)
                /\ \A k \in 1..Len(refused) : resp'.errors[k].slug = refused[k].slug
                /\ lots \subseteq lots'
                /\ Cardinality(added) = Len(wanted)
                /\ \A k \in 1..Len(wanted) :
                     \E r \in added :
                       /\ r.slug = wanted[k].slug
                       /\ r.name = wanted[k].name
                       /\ r.price = wanted[k].price
                       /\ r.sold = wanted[k].sold
                       /\ \E c \in categories :
                            c.code = wanted[k].category_code /\ c.id = r.category_id
                /\ categories' = categories
                /\ contact_channels' = contact_channels
    ]_vars

\* a batch with the same new slug twice: one lot created, one error
C8_Witness ==
  /\ resp.op = "admin_bulk_create_lots"
  /\ resp.status = 200
  /\ resp.total = 2
  /\ Len(resp.items) = 1
  /\ Len(resp.errors) = 1
  /\ resp.errors[1].reason = "Duplicate slug in payload"
  /\ resp.errors[1].slug = resp.items[1].slug

\* the rows the claim has a seed run on an empty lot table insert are stored
SeedLoaded(seed_data, L, C, K) ==
  LET labels == seed_data.category_labels
      named == {k \in 1..Len(labels) : labels[k].code # "all"}
      lot_data == seed_data.lots
  IN /\ \A k \in named :
          \E c \in C : c.code = labels[k].code /\ c.label = labels[k].label
     /\ \A k \in 1..Len(seed_data.contacts) :
          \E c \in K : c.code = seed_data.contacts[k].code
     /\ \A k \in 1..Len(lot_data) :
          (\E n \in named : labels[n].code = lot_data[k].category_code)
          => \E r \in L : /\ r.slug = lot_data[k].slug
                          /\ r.price = lot_data[k].price
                          /\ \E c \in C : c.id = r.category_id
                                          /\ c.code = lot_data[k].category_code

\* C13: a seed run that finds a lot stored leaves lots, categories and contact
\* channels exactly as they were; a seed run that finds the lot table empty
\* inserts the dataset's categories (but "all"), contacts and the lots whose
\* category the dataset defines.
C13_SeedIffNoLots ==
  [][resp'.op = "lifespan" =>
       \A seed_data \in SeedDatasets :
         lifespan(seed_data)
         => IF lots # {}
            THEN /\ lots' = lots
                 /\ categories' = categories
                 /\ contact_channels' = contact_channels
            ELSE SeedLoaded(seed_data, lots', categories', contact_channels')]_vars

-----------------------------------------------------------------------------
(* Claims checked under SpecFrame *)

\* the columns of a lot a LotUpdate payload names directly
LotFieldNames ==
  {"slug", "name", "price", "description", "specs", "images", "featured",
   "sold", "glitch_background", "sort_order"}

CategoryFieldNames == {"label", "sort_order"}

ContactFieldNames ==
  {"label", "hint", "url_template", "subject_template", "body_template",
   "is_external", "icon_svg", "sort_order"}

\* new is old with exactly the supplied fields replaced
Patched(old, new, data, fields) ==
  /\ new.id = old.id
  /\ \A f \in fields : new[f] = IF f \in DOMAIN data THEN data[f] ELSE old[f]

\* C7: a successful update of a lot, category or contact changes only the
\* fields the caller supplied (category_code being applied as the category
\* reference); every omitted field keeps its value and no other row changes.
C7_PartialUpdate ==
  [][ /\ (resp'.op = "admin_update_lot" /\ resp'.status = 200) =>
           \A slug \in Slugs, data \in LotUpdatesRich :
             admin_update_lot(slug, data) =>
               \E old \in lots : \E new \in lots' :
                 /\ old.slug = slug
                 /\ Patched(old, new, data, LotFieldNames)
                 /\ IF "category_code" \in DOMAIN data
                    THEN \E c \in categories :
                           c.code = data["category_code"] /\ new.category_id = c.id
                    ELSE new.category_id = old.category_id
                 /\ lots' \ {new} = lots \ {old}
                 /\ categories' = categories
                 /\ contact_channels' = contact_channels
                 /\ site_texts' = site_texts
                 /\ site_metrics' = site_metrics
      /\ (resp'.op = "admin_update_category" /\ resp'.status = 200) =>
           \A u \in CategoryUpdatesRich :
             admin_update_category(u[1], u[2]) =>
               \E old \in categories : \E new \in categories' :
                 /\ old.code = u[1]
                 /\ new.code = old.code
                 /\ Patched(old, new, u[2], CategoryFieldNames)
                 /\ categories' \ {new} = categories \ {old}
                 /\ lots' = lots
                 /\ contact_channels' = contact_channels
                 /\ site_texts' = site_texts
                 /\ site_metrics' = site_metrics
      /\ (resp'.op = "admin_update_contact" /\ resp'.status = 200) =>
           \A code \in ContactCodes, data \in ContactUpdatesRich :
             admin_update_contact(code, data) =>
               \E old \in contact_channels : \E new \in contact_channels' :
                 /\ old.code = code
                 /\ new.code = old.code
                 /\ Patched(old, new, data, ContactFieldNames)
                 /\ contact_channels' \ {new} = contact_channels \ {old}
                 /\ lots' = lots
                 /\ categories' = categories
                 /\ site_texts' = site_texts
                 /\ site_metrics' = site_metrics
    ]_vars

\* the seeded lot after an update of its price alone
C7_Witness ==
  /\ resp.op = "admin_update_lot"
  /\ resp.status = 200
  /\ \E r \in lots :
       /\ r.price = 500
       /\ r.name = "Ring" /\ r.description = "gold ring" /\ r.sold /\ r.featured
       /\ r.sort_order = 1 /\ r.specs = <<"au">>

\* C9: duplicating a stored lot into an unused slug stores one new lot that
\* copies category, price, description, specs, images and glitch_background,
\* takes name, featured and sort_order from the override or else the source,
\* and sold from the override or else false; the source is unchanged.
\* Duplicating a slug that is not stored is not-found and changes nothing.
C9_Duplicate ==
  [][ resp'.op = "admin_duplicate_lot" =>
        \A slug \in Slugs, payload \in LotDuplicatesRich :
          admin_duplicate_lot(slug, payload) =>
            IF ~ \E r \in lots : r.slug = slug
            THEN resp'.status = 404 /\ db' = db
            ELSE (~ \E r \in lots : r.slug = payload.new_slug) =>
              \E source \in lots : \E dup \in lots' :
                /\ source.slug = slug
                /\ resp'.status = 201
                /\ dup \notin lots
                /\ lots' = lots \cup {dup}
                /\ dup.slug = payload.new_slug
                /\ dup.category_id = source.category_id
                /\ dup.price = source.price
                /\ dup.description = source.description
                /\ dup.specs = source.specs
                /\ dup.images = source.images
                /\ dup.glitch_background = source.glitch_background
                /\ dup.name = IF "new_name" \in DOMAIN payload
                              THEN payload.new_name ELSE source.name
                /\ dup.featured = IF "featured" \in DOMAIN payload
                                  THEN payload.featured ELSE source.featured
                /\ dup.sort_order = IF "sort_order" \in DOMAIN payload
                                    THEN payload.sort_order ELSE source.sort_order
                /\ dup.sold = IF "sold" \in DOMAIN payload THEN payload.sold ELSE FALSE
                /\ categories' = categories
                /\ contact_channels' = contact_channels
                /\ site_texts' = site_texts
                /\ site_metrics' = site_metrics
    ]_vars

\* a sold lot and the copy just made of it with no override: same name, not sold
C9_Witness ==
  /\ resp.op = "admin_duplicate_lot"
  /\ resp.status = 201
  /\ \E a, b \in lots :
       /\ a.id < b.id
       /\ a.sold /\ ~ b.sold
       /\ a.name = b.name /\ a.price = b.price /\ a.featured = b.featured
       /\ a.sort_order = b.sort_order

-----------------------------------------------------------------------------
(* Claims checked under SpecConc *)

\* C3: in every reachable state, requests in flight included, the category_id
\* of every stored lot is the id of a stored category.
C3_LotCategoryStored ==
  \A lot \in lots : \E category \in categories : category.id = lot.category_id

\* the natural key a create request in flight is about to insert is held by a
\* stored row: the row slipped in after the request's existence pre-check
KeyTakenSincePrecheck(i) ==
  LET p == sess[i].plan
  IN \/ /\ sess[i].op = "admin_create_lot"
        /\ \E k \in 1..Len(p.ins_lots) : LotsBySlug(lots, p.ins_lots[k].slug) # {}
     \/ /\ sess[i].op = "admin_create_category"
        /\ \E k \in 1..Len(p.ins_cats) : ByCode(categories, p.ins_cats[k].code) # {}
     \/ /\ sess[i].op = "admin_create_contact"
        /\ \E k \in 1..Len(p.ins_contacts) :
             ByCode(contact_channels, p.ins_contacts[k].code) # {}

\* C6: when a create request commits after another request has stored a row
\* with the same natural key (both passed the existence pre-check), the store
\* keeps exactly the one row it had and the request ends with 409 Conflict.
C6_RaceLoserGetsConflict ==
  [][\A i \in Sessions :
       (/\ sess[i].pc = "pending"
        /\ sess'[i].pc = "idle"
        /\ resp'.op = sess[i].op
        /\ KeyTakenSincePrecheck(i))
       => (resp'.status = 409 /\ db' = db /\ UniqueSlug(lots') /\ UniqueCode(categories')
           /\ UniqueCode(contact_channels'))]_vars

\* text contains needle as a contiguous run of characters, case ignored
ContainsIgnoringCase(text, needle) ==
  \E start \in 0..(Len(text) - Len(needle)) :
    \A k \in 1..Len(needle) : Lower(text[start + k]) = Lower(needle[k])

\* the stored lots that satisfy all the filter conditions a listing request
\* supplies
Satisfying(a) ==
  {lot \in lots :
     /\ (a.q # <<>>) =>
          \/ ContainsIgnoringCase(Chars(lot.name), Strip(a.q))
          \/ ContainsIgnoringCase(Chars(lot.description), Strip(a.q))
     /\ (a.category \notin {Null, "", "all"}) =>
          \E category \in categories :
            category.id = lot.category_id /\ category.code = a.category
     /\ a.only_available => lot.sold = FALSE}

Clamp(x, lo, hi) == IF x < lo THEN lo ELSE IF x > hi THEN hi ELSE x

\* the slugs on the page [(page-1)*page_size, page*page_size) of `ordered`
PageSlugs(ordered, page, page_size) ==
  LET first == (page - 1) * page_size + 1
      last == IF page * page_size < Len(ordered) THEN page * page_size ELSE Len(ordered)
  IN [k \in 1..(IF last >= first THEN last - first + 1 ELSE 0) |->
        ordered[first + k - 1].slug]

\* C10: a listing request answers with total = the number of stored lots that
\* satisfy all supplied filters together, and with items = the slice
\* [(page-1)*page_size, page*page_size) of those lots in the requested sort
\* order, page clamped to >= 1 and page_size into 1..100.
C10_ListingTotalAndSlice ==
  [][\A a \in ListQueries :
       get_lots(a.q, a.category, a.sort, a.only_available, a.page, a.page_size)
       => LET page == IF a.page < 1 THEN 1 ELSE a.page
              page_size == Clamp(a.page_size, 1, 100)
          IN /\ resp'.total = Cardinality(Satisfying(a))
             /\ resp'.page = page
             /\ resp'.page_size = page_size
             /\ \E ordered \in apply_lot_sort(Satisfying(a), a.sort) :
                  [k \in 1..Len(resp'.items) |-> resp'.items[k].slug]
                    = PageSlugs(ordered, page, page_size)]_vars

-----------------------------------------------------------------------------
(* Claims checked under SpecList *)

\* the lots a listing request selects, as get_lots filters them
Listed(a) ==
  apply_lot_filters(Joined(lots, categories), categories, a.q, a.category, a.only_available)

\* C11: the sequence a listing returns is uniquely determined by the stored
\* data and the sort mode: whatever order the store may produce for the
\* request's ORDER BY, the page is the one returned, so a repeated call and the
\* next page see the same sequence.
C11_SortOrderDetermined ==
  [][resp'.op = "get_lots" =>
       \A a \in SortQueries :
         get_lots(a.q, a.category, a.sort, a.only_available, a.page, a.page_size)
         => \A ordered \in apply_lot_sort(Listed(a), a.sort) :
              LotsPage(categories, Cardinality(Listed(a)), ordered, a.page, a.page_size)
                = resp']_vars

\* the least n with n * d >= t
LeastCover(t, d) == CHOOSE n \in 0..t : n * d >= t /\ \A m \in 0..(n - 1) : m * d < t

\* C12: whatever integers page and page_size are, the listing answers 200 with
\* page = max(page, 1), page_size clamped into 1..100 and
\* pages = max(1, ceil(total / page_size)) for the clamped page_size.
C12_PageClamped ==
  [][resp'.op = "get_lots" =>
       \A a \in ListQueriesRich :
         get_lots(a.q, a.category, a.sort, a.only_available, a.page, a.page_size)
         => LET size == Clamp(a.page_size, 1, 100)
                cover == LeastCover(resp'.total, size)
            IN /\ resp'.status = 200
               /\ resp'.page = (IF a.page >= 1 THEN a.page ELSE 1)
               /\ resp'.page_size = size
               /\ resp'.pages = (IF cover >= 1 THEN cover ELSE 1)]_vars

\* a listing of two lots answered with page_size 100: in SpecList only a
\* request with page_size = 101 gives it
C12_Witness ==
  /\ resp.op = "get_lots"
  /\ resp.status = 200
  /\ resp.total = 2
  /\ resp.page = 1
  /\ resp.page_size = 100
  /\ resp.pages = 1
  /\ Len(resp.items) = 2

-----------------------------------------------------------------------------
(* Claims checked under SpecSeed *)

\* a step of the seed run
SeedStep == (\E seed_data \in {SeedFull, SeedShop} : seed_begin(seed_data)) \/ seed_flush \/ seed_commit

\* the step ends a seed run that completed
RunCompleted == sess'[Seeder].pc = "idle" /\ resp' = Status("lifespan", 200)

DefaultKeys == {DEFAULT_SITE_TEXTS[k].key : k \in 1..Len(DEFAULT_SITE_TEXTS)}

\* C14: no step of a seed run makes a part of the run's inserts visible: a step
\* either leaves every table as other sessions see it unchanged, or it ends a
\* completed run and all the rows of the run (site texts, visits metric,
\* categories, contacts, resolvable lots) are stored after it; a run that
\* fails leaves the tables unchanged.
C14_SeedAllOrNothing ==
  [][SeedStep =>
       \/ db' = db
       \/ /\ RunCompleted
          /\ \A key \in DefaultKeys : \E t \in site_texts' : t.key = key
          /\ \E m \in site_metrics' : m.key = "visits"
          /\ sess[Seeder].pc = "flushed" =>
               LET run == sess[Seeder].seed
               IN /\ run.C \subseteq categories'
                  /\ run.K \subseteq contact_channels'
                  /\ run.C \cap categories = {}
                  /\ run.K \cap contact_channels = {}
                  /\ SeedLoaded(run.data, lots', categories', contact_channels')]_vars

\* a run has flushed its categories and contacts, and a request of the serving
\* worker, in flight at that moment, sees none of them
C14_Witness ==
  /\ sess[Seeder].pc = "flushed"
  /\ sess[Seeder].seed.C # {}
  /\ sess[Seeder].seed.K # {}
  /\ categories = {}
  /\ contact_channels = {}
  /\ serving
  /\ sess[Peer].pc = "pending"

\* C15: a seed run keeps every stored site text (value and description) and
\* the stored visits metric as they are, and when it completes every default
\* site-text key and the visits metric are stored exactly once, the metric
\* with value 0 if the run created it.
C15_SiteRowsKept ==
  [][SeedStep =>
       /\ \A t \in site_texts : t \in site_texts'
       /\ \A m \in site_metrics : m \in site_metrics'
       /\ RunCompleted =>
            /\ \A key \in DefaultKeys :
                 Cardinality({t \in site_texts' : t.key = key}) = 1
            /\ Cardinality({m \in site_metrics' : m.key = "visits"}) = 1
            /\ (~ \E m \in site_metrics : m.key = "visits")
                 => \E m \in site_metrics' : m.key = "visits" /\ m.value = 0]_vars

\* a completed run next to an edited title and a counter of 7: both kept, the
\* missing default text added
C15_Witness ==
  /\ resp = Status("lifespan", 200)
  /\ categories # {}
  /\ \E t \in site_texts : t.key = "site.window_title" /\ t.value = "Gem House"
  /\ \E t \in site_texts : t.key = "hero.action.catalog" /\ t.value = "catalog"
  /\ \E m \in site_metrics : m.key = "visits" /\ m.value = 7

-----------------------------------------------------------------------------
(* Claims checked under SpecPrice *)

\* C16: in every reachable state the price of every stored lot is an integer
\* >= 0, whether the lot came from a create, a bulk create, a duplicate, an
\* update or the startup seed.
C16_PriceNonNegative == \A lot \in lots : lot.price \in Nat

-----------------------------------------------------------------------------
(* Claims checked under SpecSession *)

\* C17: every request that has acquired a session eventually has it closed,
\* whether the handler returned, raised a 404 or 409, or raised an unexpected
\* exception; a request that ends in an error leaves the stored tables as
\* they were, and closing a session changes none of them.
C17_SessionReleased ==
  /\ \A i \in Sessions : (sess[i].pc # "idle") ~> (sess[i].pc = "idle")
  /\ [][\A i \in Sessions :
          /\ (sess[i].pc = "yielded" /\ sess'[i].pc # "yielded" /\ resp'.status >= 400)
               => db' = db
          /\ (sess[i].pc # "idle" /\ sess'[i].pc = "idle" /\ serving') => db' = db]_vars

\* a create that lost the race on its slug got 500, and every session is closed
C17_Witness ==
  /\ resp.op = "admin_create_lot"
  /\ resp.status = 500
  /\ serving
  /\ \A i \in Sessions : sess[i].pc = "idle"
  /\ \E lot \in lots : lot.slug = "ring-2"

====
